---- MODULE Spec2Model ----
(***************************************************************************)
(* Model of scripts/trace.py and scripts/benchmark.py: a bounded thread    *)
(* pool runs the external prover once per cached input file; in tracing    *)
(* mode the telemetry artifacts of the successful runs are merged and      *)
(* reduced to a CSV of per-counter statistics, in benchmark mode one CSV   *)
(* row is appended per successful run.                                     *)
(***************************************************************************)
EXTENDS Integers, Sequences, FiniteSets, TLC

(* ------------------------------ bounds -------------------------------- *)
MaxUnits == 3
MaxJobs == 2
MaxLen == 4
MaxVal == 4

(* --------------------------- generic helpers -------------------------- *)
Range(s) == {s[i] : i \in 1..Len(s)}

RECURSIVE SeqSum(_)
SeqSum(s) == IF s = <<>> THEN 0 ELSE Head(s) + SeqSum(Tail(s))

\* Python's sorted(): the ascending rearrangement of a list of integers.
RECURSIVE Insert(_, _)
Insert(x, s) ==
    IF s = <<>> THEN <<x>>
    ELSE IF x <= Head(s) THEN <<x>> \o s
    ELSE <<Head(s)>> \o Insert(x, Tail(s))

RECURSIVE sorted(_)
sorted(s) == IF s = <<>> THEN <<>> ELSE Insert(Head(s), sorted(Tail(s)))

IsSorted(s) == \A i \in 1..(Len(s) - 1) : s[i] <= s[i + 1]

\* run_trace / run_benchmark return values as the main thread sees them
None == <<"None">>
Pending == <<"pending">>
Raised == <<"exception">>
NA == "N/A"

(* ----------------------------- input files ---------------------------- *)
\* A basename matched by the glob, as the tokens str.replace works on:
\* "input_", "0x", the hash text, the suffix.
FileName(x, suffix) == <<"input_", "0x">> \o x \o <<suffix>>

PlainFiles(suffix) == [i \in 1..MaxUnits |-> FileName(<<ToString(i)>>, suffix)]
\* the second file's name differs from the first's only by text that the
\* block-hash extraction strips
OddFiles(suffix) ==
    [i \in 1..MaxUnits |->
        IF i = 2 THEN FileName(<<"1", "input_">>, suffix)
        ELSE FileName(<<ToString(i)>>, suffix)]

\* what glob.glob may return: distinct names, in directory order
FileLists(suffix) ==
    {SubSeq(PlainFiles(suffix), 1, n) : n \in 0..MaxUnits}
    \cup {SubSeq(OddFiles(suffix), 1, n) : n \in 2..MaxUnits}

RECURSIVE Remove(_, _)
Remove(s, t) ==
    IF s = <<>> THEN <<>>
    ELSE IF Head(s) = t THEN Remove(Tail(s), t)
    ELSE <<Head(s)>> \o Remove(Tail(s), t)

RECURSIVE ReplaceTok(_, _, _)
ReplaceTok(s, t, r) ==
    IF s = <<>> THEN <<>>
    ELSE <<IF Head(s) = t THEN r ELSE Head(s)>> \o ReplaceTok(Tail(s), t, r)

\* trace.py: basename.replace("input_", "").replace(".v2.json", "")
trace_block_hash(file) == Remove(Remove(file, "input_"), ".v2.json")

\* benchmark.py: basename.replace("input_", "").replace(".json", "")
bench_block_hash(file) ==
    Remove(ReplaceTok(Remove(file, "input_"), ".v2.json", ".v2"), ".json")

\* os.path.join(output_dir, f"trace_{block_hash}.json.gz")
trace_file(file) == <<"trace_">> \o trace_block_hash(file) \o <<".json.gz">>

(* -------------------------- telemetry payloads ------------------------ *)
\* A file at an artifact path: absent, undecodable, or a gzip'd JSON object
\* whose items (in document order) map a counter name to [cycles, gas] pairs.
Json(items) == [state |-> "json", items |-> items]
Artifact1 == Json(<< [name |-> "KECCAK", entries |-> << <<10, 2>>, <<20, 4>> >>] >>)
Artifact2 == Json(<< [name |-> "KECCAK", entries |-> << <<30, 5>> >>] >>)
Artifact3 == Json(<< [name |-> "KECCAK", entries |-> << <<100, 0>> >>],
                     [name |-> "ADD", entries |-> << <<100, 0>> >>],
                     [name |-> "MUL", entries |-> << >>] >>)
EmptyArtifact == Json(<< >>)
Corrupt == [state |-> "corrupt", items |-> << >>]
Absent == [state |-> "absent", items |-> << >>]
WellFormed == {Artifact1, Artifact2, Artifact3, EmptyArtifact}
\* what the external program may leave at its TRACE_FILE on exit 0; fs maps
\* each artifact path to what was last left there, and the file can be read
\* while the scratch directory exists
Contents == WellFormed \cup {Corrupt, Absent}
Names == {"KECCAK", "ADD", "MUL"}

VARIABLES
    mode, jobs, files, cliPresent,
    pc, exc,
    work_queue, worker, status, result, invoked, stderr,
    consumed, generated_files,
    scratch, fs,
    loaded, keys, cycle_data, gas_data,
    report,
    arg, ret

vars == <<mode, jobs, files, cliPresent, pc, exc, work_queue, worker, status,
          result, invoked, stderr, consumed, generated_files, scratch, fs,
          loaded, keys, cycle_data, gas_data, report, arg, ret>>

inputVars == <<mode, jobs, files, cliPresent>>
poolVars == <<work_queue, worker, status, result, invoked, stderr>>
accVars == <<loaded, keys, cycle_data, gas_data>>
fnVars == <<arg, ret>>

Units == 1..Len(files)
Paths == {trace_file(files[u]) : u \in Units}

\* a pool sized one thread too large (faulty variant of max_workers)
max_workers_offbyone == jobs + 1

\* ThreadPoolExecutor(max_workers=args.jobs): the pool never has more threads
max_workers == jobs
Workers == 1..max_workers

(* ------------------------------ report rows --------------------------- *)
\* trace.py header (lines 64-74)
TraceHeader == <<"name", "count", "min cpg", "median cpg", "max cpg",
                 "min cycles", "median cycles", "max cycles", "total cycles">>
\* benchmark.py header (lines 103-104)
BenchHeader == <<"block_number", "execution_time", "total_cycles", "user_cycles",
                 "paging_cycles", "bigint_cycles", "keccak_calls", "gas_used">>

\* parse_metrics: the eight cells of one benchmarked block; the cells come
\* from the prover's stdout and the RPC node, so the row is identified here
\* by the block hash it was computed for.
parse_metrics(block_hash) == <<"metrics">> \o block_hash

(* ------------------------------- Init --------------------------------- *)
Init ==
    /\ mode \in {"trace", "benchmark"}
    /\ jobs \in 1..MaxJobs
    /\ files \in FileLists(IF mode = "trace" THEN ".v2.json" ELSE ".json")
    /\ cliPresent \in BOOLEAN
    /\ pc = "start"
    /\ exc = "none"
    /\ work_queue = << >>
    /\ worker = [w \in Workers |-> 0]
    /\ status = [u \in 1..Len(files) |-> "new"]
    /\ result = [u \in 1..Len(files) |-> Pending]
    /\ invoked = [u \in 1..Len(files) |-> 0]
    /\ stderr = [u \in 1..Len(files) |-> 0]
    /\ consumed = 0
    /\ generated_files = << >>
    /\ scratch = "none"
    /\ fs = [p \in {trace_file(files[u]) : u \in 1..Len(files)} |-> Absent]
    /\ loaded = 0
    /\ keys = << >>
    /\ cycle_data = [n \in Names |-> << >>]
    /\ gas_data = [n \in Names |-> << >>]
    /\ report = << >>
    /\ arg = << >>
    /\ ret = 0

(* --------------------------- main: start-up --------------------------- *)
\* main() up to the executor: build(), glob, and then the report header
\* (benchmark.py 96-104) or the scratch directory (trace.py 111-117).
\* cargo or mkdtemp failing raises out of main before any unit is submitted.
Start ==
    /\ pc = "start"
    /\ \E outcome \in {"ok", "build_failed", "mkdtemp_failed"} :
         IF outcome = "build_failed" \/ (outcome = "mkdtemp_failed" /\ mode = "trace")
         THEN /\ pc' = "crashed"
              /\ exc' = IF outcome = "build_failed" THEN "CalledProcessError"
                        ELSE "OSError"
              /\ UNCHANGED <<scratch, report>>
         ELSE /\ outcome = "ok"
              /\ pc' = "submit"
              /\ exc' = "none"
              /\ scratch' = IF mode = "trace" THEN "exists" ELSE scratch
              /\ report' = IF mode = "benchmark" THEN <<BenchHeader>> ELSE report
    /\ UNCHANGED <<inputVars, poolVars, consumed, generated_files, fs, accVars, fnVars>>

\* executor.map(fn, files): every unit is submitted, in input order, before
\* the first result is asked for.
MapSubmit ==
    /\ pc = "submit"
    /\ pc' = "map"
    /\ work_queue' = [i \in 1..Len(files) |-> i]
    /\ status' = [u \in Units |-> "queued"]
    /\ UNCHANGED <<inputVars, exc, worker, result, invoked, stderr, consumed,
                   generated_files, scratch, fs, accVars, report, fnVars>>

(* ------------------------------ workers ------------------------------- *)
InFlight == {w \in Workers : worker[w] # 0}

\* a pool thread takes the oldest work item and calls run_trace /
\* run_benchmark on it, which spawns the external program
WorkerStart(w) ==
    /\ worker[w] = 0
    /\ work_queue # << >>
    /\ LET u == Head(work_queue) IN
         /\ worker' = [worker EXCEPT ![w] = u]
         /\ status' = [status EXCEPT ![u] = "running"]
         /\ invoked' = [invoked EXCEPT ![u] = @ + 1]
    /\ work_queue' = Tail(work_queue)
    /\ UNCHANGED <<inputVars, pc, exc, result, stderr, consumed, generated_files,
                   scratch, fs, accVars, report, fnVars>>

\* the artifact path returned whatever the exit status (faulty variant of run_trace)
run_trace_ignores_exit(file, exit0) == trace_file(file)

\* run_trace's return value (trace.py 33-38)
run_trace(file, exit0) == IF exit0 THEN trace_file(file) ELSE None

\* the metrics row returned whatever the exit status (faulty variant of
\* run_benchmark)
run_benchmark_ignores_exit(file, exit0) == parse_metrics(bench_block_hash(file))

\* run_benchmark's return value (benchmark.py 83-88)
run_benchmark(file, exit0) ==
    IF exit0 THEN parse_metrics(bench_block_hash(file)) ELSE None

\* subprocess.run(..., check=True) returns or raises in the worker:
\* FileNotFoundError when CLI_BIN does not exist (not caught, stored in the
\* future), CalledProcessError on a non-zero exit (caught: one line on
\* stderr, None returned), else the unit's result. In tracing mode an exit-0
\* run has left some content at its TRACE_FILE.
WorkerFinish(w) ==
    /\ worker[w] # 0
    /\ LET u == worker[w] IN
         IF ~cliPresent
         THEN /\ status' = [status EXCEPT ![u] = "raised"]
              /\ result' = [result EXCEPT ![u] = Raised]
              /\ UNCHANGED <<stderr, fs>>
         ELSE \E exit0 \in BOOLEAN :
                /\ status' = [status EXCEPT ![u] = IF exit0 THEN "ok" ELSE "failed"]
                /\ stderr' = [stderr EXCEPT ![u] = IF exit0 THEN @ ELSE @ + 1]
                /\ result' = [result EXCEPT ![u] =
                                 IF mode = "trace" THEN run_trace(files[u], exit0)
                                 ELSE run_benchmark(files[u], exit0)]
                /\ IF mode = "trace" /\ exit0
                   THEN \E c \in Contents :
                          fs' = [fs EXCEPT ![trace_file(files[u])] = c]
                   ELSE fs' = fs
    /\ worker' = [worker EXCEPT ![w] = 0]
    /\ UNCHANGED <<inputVars, pc, exc, work_queue, invoked, consumed,
                   generated_files, scratch, accVars, report, fnVars>>

(* ----------------------- main: consuming results ----------------------- *)
\* `if res:` / `if result:`
Truthy(res) == res # None

\* the result put in front of what was collected (faulty variant of collect)
collect_front(list, res) == <<res>> \o list

\* generated_files.append(res) (trace.py 123); f.write(...) on the report
\* opened with "a" (benchmark.py 109-110)
collect(list, res) == Append(list, res)

\* one turn of `for res in executor.map(...)`: results come in input order;
\* a stored exception is re-raised here, which cancels the futures not yet
\* started and unwinds main.
Consume ==
    /\ pc = "map"
    /\ consumed < Len(files)
    /\ LET k == consumed + 1 IN
         /\ result[k] # Pending
         /\ consumed' = k
         /\ IF result[k] = Raised
            THEN /\ pc' = "aborting"
                 /\ exc' = "WorkerException"
                 /\ work_queue' = << >>
                 /\ status' = [u \in Units |->
                                  IF status[u] = "queued" THEN "cancelled"
                                  ELSE status[u]]
                 /\ UNCHANGED <<generated_files, report>>
            ELSE /\ UNCHANGED <<pc, exc, work_queue, status>>
                 /\ generated_files' =
                        IF mode = "trace" /\ Truthy(result[k])
                        THEN collect(generated_files, result[k])
                        ELSE generated_files
                 /\ report' =
                        IF mode = "benchmark" /\ Truthy(result[k])
                        THEN collect(report, result[k])
                        ELSE report
    /\ UNCHANGED <<inputVars, worker, result, invoked, stderr, scratch, fs,
                   accVars, fnVars>>

\* leaving `with ThreadPoolExecutor(...)`: shutdown(wait=True) joins the
\* workers; then analyze_traces (trace.py 125) or the end of main
\* (benchmark.py 112), or the exception goes on unwinding.
PoolShutdown ==
    /\ pc \in {"map", "aborting"}
    /\ pc = "map" => consumed = Len(files)
    /\ InFlight = {}
    /\ work_queue = << >>
    /\ pc' = IF pc = "aborting" THEN (IF mode = "trace" THEN "unwind" ELSE "crashed")
             ELSE IF mode = "trace" THEN "analyze" ELSE "done"
    /\ UNCHANGED <<inputVars, exc, poolVars, consumed, generated_files, scratch,
                   fs, accVars, report, fnVars>>


(* ------------------------- analyze_traces: merge ----------------------- *)
\* trace.py imports (lines 1-3) bind no name `array`, so the default
\* factory `lambda: array('Q')` raises NameError when it is first called.
ArrayDefined == FALSE

Acc(k, c, g, e) == [keys |-> k, cycle_data |-> c, gas_data |-> g, exc |-> e]

RECURSIVE Column(_, _)
Column(entries, j) ==
    IF entries = << >> THEN << >>
    ELSE <<Head(entries)[j]>> \o Column(Tail(entries), j)

\* lines 52-57: fold the items of one decoded trace into the buffers; a
\* name not seen before calls the default factory of both dictionaries
RECURSIVE MergeItems(_, _)
MergeItems(items, acc) ==
    IF items = << >> \/ acc.exc # "none" THEN acc
    ELSE LET name == Head(items).name
             entries == Head(items).entries
             isNew == \A i \in 1..Len(acc.keys) : acc.keys[i] # name
         IN IF isNew /\ ~ArrayDefined
            THEN Acc(acc.keys, acc.cycle_data, acc.gas_data, "NameError")
            ELSE MergeItems(Tail(items),
                   Acc(IF isNew THEN Append(acc.keys, name) ELSE acc.keys,
                       [acc.cycle_data EXCEPT ![name] = @ \o Column(entries, 1)],
                       [acc.gas_data EXCEPT ![name] = @ \o Column(entries, 2)],
                       "none"))

\* lines 47-60, one turn of the loop over trace_files: gzip.open and
\* json.load raise on a missing or undecodable file, nothing catches it
AnalyzeLoad ==
    /\ pc = "analyze"
    /\ loaded < Len(generated_files)
    /\ LET filename == generated_files[loaded + 1]
           trace == fs[filename]
           acc == MergeItems(trace.items, Acc(keys, cycle_data, gas_data, "none"))
       IN IF scratch # "exists" \/ trace.state = "absent"
          THEN /\ exc' = "FileNotFoundError"
               /\ pc' = "unwind"
               /\ UNCHANGED accVars
          ELSE IF trace.state = "corrupt"
          THEN /\ exc' = "CorruptArtifact"
               /\ pc' = "unwind"
               /\ UNCHANGED accVars
          ELSE /\ keys' = acc.keys
               /\ cycle_data' = acc.cycle_data
               /\ gas_data' = acc.gas_data
               /\ exc' = acc.exc
               /\ pc' = IF acc.exc = "none" THEN "analyze" ELSE "unwind"
               /\ loaded' = IF acc.exc = "none" THEN loaded + 1 ELSE loaded
    /\ UNCHANGED <<inputVars, poolVars, consumed, generated_files, scratch, fs,
                   report, fnVars>>

(* ----------------------- analyze_traces: statistics -------------------- *)
\* Python indexing of a list held as a 1-based sequence
Py(s, i) == IF i >= 0 THEN s[i + 1] ELSE s[Len(s) + i + 1]

\* line 81: [c // g for c, g in zip(cycle_arr, gas_arr) if g > 0]
RECURSIVE Cpgs(_, _)
Cpgs(cycle_arr, gas_arr) ==
    IF cycle_arr = << >> \/ gas_arr = << >> THEN << >>
    ELSE (IF Head(gas_arr) > 0 THEN <<Head(cycle_arr) \div Head(gas_arr)>> ELSE << >>)
         \o Cpgs(Tail(cycle_arr), Tail(gas_arr))

cpg_list(cycle_arr, gas_arr) == sorted(Cpgs(cycle_arr, gas_arr))

\* line 82
cycle_list(cycle_arr) == sorted(cycle_arr)

\* the upper middle element, no averaging (faulty variant of median_sorted)
median_sorted_upper(s) == Py(s, Len(s) \div 2)

\* lines 84-87
median_sorted(s) ==
    LET n == Len(s)
        mid == n \div 2
    IN IF n % 2 = 0 THEN (Py(s, mid - 1) + Py(s, mid)) \div 2 ELSE Py(s, mid)

\* line 82 binds `cycle_list`; lines 98-100 read `sorted_cycles`, a name
\* bound nowhere, so building the row raises NameError
SortedCyclesDefined == FALSE

\* lines 89-103: the cells of one row as csv.writer writes them, or the
\* exception raised while the list is built
SummaryRow(name, cycle_arr, gas_arr) ==
    LET cpgs == cpg_list(cycle_arr, gas_arr)
        cpg == IF cpgs # << >>
               THEN <<ToString(Py(cpgs, 0)), ToString(median_sorted(cpgs)),
                      ToString(Py(cpgs, -1))>>
               ELSE <<NA, NA, NA>>
        sorted_cycles == cycle_list(cycle_arr)
    IN IF ~SortedCyclesDefined THEN [exc |-> "NameError", cells |-> << >>]
       ELSE IF sorted_cycles = << >> THEN [exc |-> "IndexError", cells |-> << >>]
       ELSE [exc |-> "none",
             cells |-> <<name, ToString(Len(cycle_arr))>> \o cpg \o
                       <<ToString(Py(sorted_cycles, 0)),
                         ToString(median_sorted(sorted_cycles)),
                         ToString(Py(sorted_cycles, -1)),
                         ToString(SeqSum(cycle_arr))>>]

\* lines 77-103: `for name in cycle_data`, in insertion order, until a row
\* raises
RECURSIVE WriteRows(_, _, _, _)
WriteRows(names, cycles, gas, out) ==
    IF names = << >> THEN [exc |-> "none", rows |-> out]
    ELSE LET r == SummaryRow(Head(names), cycles[Head(names)], gas[Head(names)])
         IN IF r.exc # "none" THEN [exc |-> r.exc, rows |-> out]
            ELSE WriteRows(Tail(names), cycles, gas, Append(out, r.cells))

\* lines 62-103: open(output_csv, "w"), the header, the rows; the file keeps
\* what was written before an exception
WriteReport ==
    /\ pc = "analyze"
    /\ loaded = Len(generated_files)
    /\ LET w == WriteRows(keys, cycle_data, gas_data, <<TraceHeader>>) IN
         /\ report' = w.rows
         /\ exc' = w.exc
    /\ pc' = "unwind"
    /\ UNCHANGED <<inputVars, poolVars, consumed, generated_files, scratch, fs,
                   accVars, fnVars>>

\* lines 47-60 over a whole list of files, from empty buffers
RECURSIVE LoadAll(_, _)
LoadAll(arts, acc) ==
    IF arts = << >> \/ acc.exc # "none" THEN acc
    ELSE IF Head(arts).state = "absent"
    THEN Acc(acc.keys, acc.cycle_data, acc.gas_data, "FileNotFoundError")
    ELSE IF Head(arts).state = "corrupt"
    THEN Acc(acc.keys, acc.cycle_data, acc.gas_data, "CorruptArtifact")
    ELSE LoadAll(Tail(arts), MergeItems(Head(arts).items, acc))

\* analyze_traces (lines 41-103) as a function of the files' contents: the
\* exception it ends with and the report it leaves
analyze_traces(arts) ==
    LET acc == LoadAll(arts, Acc(<< >>, [n \in Names |-> << >>],
                                 [n \in Names |-> << >>], "none"))
        w == WriteRows(acc.keys, acc.cycle_data, acc.gas_data, <<TraceHeader>>)
    IN IF acc.exc # "none" THEN [exc |-> acc.exc, report |-> << >>]
       ELSE [exc |-> w.exc, report |-> w.rows]

\* the directory removed only when the block ends normally (faulty variant
\* of Cleanup: mkdtemp and rmtree without try/finally)
Cleanup_on_success_only ==
    /\ pc = "unwind"
    /\ scratch' = IF exc = "none" THEN "removed" ELSE scratch
    /\ pc' = IF exc = "none" THEN "done" ELSE "crashed"
    /\ UNCHANGED <<inputVars, exc, poolVars, consumed, generated_files, fs,
                   accVars, report, fnVars>>

\* leaving `with tempfile.TemporaryDirectory()` (line 116), normally or by
\* an exception: the directory and the artifacts in it are removed
Cleanup ==
    /\ pc = "unwind"
    /\ scratch' = "removed"
    /\ pc' = IF exc = "none" THEN "done" ELSE "crashed"
    /\ UNCHANGED <<inputVars, exc, poolVars, consumed, generated_files, fs,
                   accVars, report, fnVars>>

(* --------------------------- specifications --------------------------- *)
Next ==
    \/ Start
    \/ MapSubmit
    \/ \E w \in Workers : WorkerStart(w)
    \/ \E w \in Workers : WorkerFinish(w)
    \/ Consume
    \/ PoolShutdown
    \/ AnalyzeLoad
    \/ WriteReport
    \/ Cleanup

Spec == Init /\ [][Next]_vars

\* median_sorted applied to every sorted list of bounded length and values
SortedLists ==
    UNION {{s \in [1..n -> 0..MaxVal] : IsSorted(s)} : n \in 1..MaxLen}

InitMedian ==
    /\ mode = "trace" /\ jobs = 1 /\ files = << >> /\ cliPresent = TRUE
    /\ pc = "call" /\ exc = "none"
    /\ work_queue = << >> /\ worker = [w \in 1..1 |-> 0]
    /\ status = << >> /\ result = << >> /\ invoked = << >> /\ stderr = << >>
    /\ consumed = 0 /\ generated_files = << >>
    /\ scratch = "none" /\ fs = << >>
    /\ loaded = 0 /\ keys = << >>
    /\ cycle_data = [n \in Names |-> << >>]
    /\ gas_data = [n \in Names |-> << >>]
    /\ report = << >>
    /\ arg \in SortedLists
    /\ ret = 0

CallMedian ==
    /\ pc = "call"
    /\ ret' = median_sorted(arg)
    /\ pc' = "returned"
    /\ UNCHANGED <<inputVars, exc, poolVars, consumed, generated_files, scratch,
                   fs, accVars, report, arg>>

NextMedian == CallMedian

SpecMedian == InitMedian /\ [][NextMedian]_vars

(* ================================ claims ============================== *)
\* the units that exited 0, in input order
RECURSIVE OkUnits(_)
OkUnits(n) ==
    IF n = 0 THEN << >>
    ELSE OkUnits(n - 1) \o (IF status[n] = "ok" THEN <<n>> ELSE << >>)

\* the pool has been drained and main has moved past the executor block
\* without a worker exception
PoolDrained ==
    /\ pc \in {"analyze", "unwind", "done"}
       \/ (pc = "crashed" /\ scratch = "removed")
    /\ exc # "WorkerException"

\* C1: partial failure isolation. When the external program exists, then
\* whatever subset of units exits non-zero, once main leaves the pool every
\* unit has been invoked (once) and has finished, the artifacts handed to
\* analyze_traces (tracing) or the rows in the report (benchmark) are exactly
\* those of the units that exited 0, in input order, and at every moment one
\* error line has been printed per failed unit and none for any other unit.
C1_FailureIsolation ==
    cliPresent =>
      /\ \A u \in Units : stderr[u] = IF status[u] = "failed" THEN 1 ELSE 0
      /\ PoolDrained =>
            /\ \A u \in Units : invoked[u] = 1 /\ status[u] \in {"ok", "failed"}
            /\ mode = "trace" =>
                  generated_files =
                    [i \in 1..Len(OkUnits(Len(files))) |->
                        trace_file(files[OkUnits(Len(files))[i]])]
            /\ mode = "benchmark" =>
                  report =
                    <<BenchHeader>> \o
                    [i \in 1..Len(OkUnits(Len(files))) |->
                        parse_metrics(bench_block_hash(files[OkUnits(Len(files))[i]]))]

\* C1 witness: three units, the middle one failed, the other two were handed
\* to the aggregation
C1_Witness ==
    /\ mode = "trace" /\ pc = "analyze" /\ Len(files) = 3
    /\ status[1] = "ok" /\ status[2] = "failed" /\ status[3] = "ok"
    /\ Len(generated_files) = 2 /\ stderr[2] = 1

Running == {u \in Units : status[u] = "running"}

\* C8: bounded concurrency. At most `jobs` invocations are in flight, every
\* running unit is owned by exactly one worker and a worker owns at most one
\* unit, and while fewer than `jobs` are in flight and a unit is queued some
\* worker can start the queued unit.
C8_BoundedConcurrency ==
    /\ Cardinality(Running) <= jobs
    /\ Cardinality(InFlight) <= jobs
    /\ \A u \in Running : Cardinality({w \in Workers : worker[w] = u}) = 1
    /\ \A w \in InFlight : worker[w] \in Running
    /\ (Cardinality(Running) < jobs /\ work_queue # << >>) =>
          \E w \in Workers : ENABLED WorkerStart(w)

\* C8 witness: jobs = 2 invocations really in flight together while a third
\* unit waits in the queue
C8_Witness ==
    /\ jobs = 2 /\ Cardinality(Running) = 2 /\ work_queue # << >>

\* the k-th smallest element of a non-empty list, by counting
OrderStat(s, k) ==
    CHOOSE v \in Range(s) :
        /\ Cardinality({i \in 1..Len(s) : s[i] <= v}) >= k
        /\ Cardinality({i \in 1..Len(s) : s[i] >= v}) >= Len(s) - k + 1

\* C9: for every non-empty sorted integer list, median_sorted returns the
\* middle element (odd length) or the floor of the average of the two middle
\* elements (even length), an integer; [1,2,3,4] and [1,2,3] both give 2.
C9_MedianExact ==
    pc = "returned" =>
      /\ ret \in Int
      /\ Len(arg) % 2 = 1 => ret = OrderStat(arg, (Len(arg) + 1) \div 2)
      /\ Len(arg) % 2 = 0 =>
            LET a == OrderStat(arg, Len(arg) \div 2)
                b == OrderStat(arg, Len(arg) \div 2 + 1)
            IN 2 * ret <= a + b /\ a + b < 2 * ret + 2
      /\ arg = <<1, 2, 3, 4>> => ret = 2
      /\ arg = <<1, 2, 3>> => ret = 2

\* C9 witness: the even-length example has been computed
C9_Witness == pc = "returned" /\ arg = <<1, 2, 3, 4>> /\ ret = 2

(* ------------------- reference statistics (spec 4.4) ------------------ *)
\* the artifacts handed to analyze_traces, as left in the scratch directory
Handed == [i \in 1..Len(generated_files) |-> fs[generated_files[i]]]

AllWellFormed == \A i \in 1..Len(Handed) : Handed[i].state = "json"

\* analyze_traces was entered and has returned or raised
AnalysisEnded ==
    /\ mode = "trace"
    /\ PoolDrained
    /\ pc \in {"unwind", "done", "crashed"}

RECURSIVE EntriesOf(_, _)
EntriesOf(items, n) ==
    IF items = << >> THEN << >>
    ELSE (IF Head(items).name = n THEN Head(items).entries ELSE << >>)
         \o EntriesOf(Tail(items), n)

\* the observations of counter n in the decodable artifacts arts, in order
RECURSIVE ObsOf(_, _)
ObsOf(arts, n) ==
    IF arts = << >> THEN << >>
    ELSE (IF Head(arts).state = "json" THEN EntriesOf(Head(arts).items, n) ELSE << >>)
         \o ObsOf(Tail(arts), n)

Qualifying(obs) == {i \in 1..Len(obs) : obs[i][2] > 0}

\* the k-th smallest of the values f[i], i in the finite index set I
KthOf(f, I, k) ==
    CHOOSE v \in {f[i] : i \in I} :
        /\ Cardinality({i \in I : f[i] <= v}) >= k
        /\ Cardinality({i \in I : f[i] >= v}) >= Cardinality(I) - k + 1

MedianOf(f, I) ==
    LET n == Cardinality(I) IN
    IF n % 2 = 1 THEN KthOf(f, I, (n + 1) \div 2)
    ELSE (KthOf(f, I, n \div 2) + KthOf(f, I, n \div 2 + 1)) \div 2

StatCells(f, I) ==
    <<ToString(KthOf(f, I, 1)), ToString(MedianOf(f, I)),
      ToString(KthOf(f, I, Cardinality(I)))>>

\* cells 3-5 of a counter's row: cost per gas over the gas > 0 observations
RefCpgCells(obs) ==
    IF Qualifying(obs) = {} THEN <<NA, NA, NA>>
    ELSE StatCells([i \in 1..Len(obs) |->
                      IF obs[i][2] > 0 THEN obs[i][1] \div obs[i][2] ELSE 0],
                   Qualifying(obs))

\* cells 6-9: cycle statistics over every observation, and the cycle sum
RefCycleCells(obs) ==
    StatCells([i \in 1..Len(obs) |-> obs[i][1]], 1..Len(obs))
    \o <<ToString(SeqSum([i \in 1..Len(obs) |-> obs[i][1]]))>>

\* the Summary Row the specification asks for
RefRow(n, obs) ==
    <<n, ToString(Cardinality(Qualifying(obs)))>> \o RefCpgCells(obs)
    \o RefCycleCells(obs)

\* the data rows of the report (all lines after the header)
DataRows == IF report = << >> THEN << >> ELSE Tail(report)
RowsFor(n) == {i \in 1..Len(DataRows) : DataRows[i][1] = n}

NameRank(n) == CASE n = "ADD" -> 1 [] n = "KECCAK" -> 2 [] n = "MUL" -> 3

\* C2 (as claimed): analyze_traces over a non-empty list of well-formed
\* artifacts completes and the report holds, for every counter with at least
\* one observation, exactly one row, equal to the statistics of the
\* concatenated observations; Artifact1 then Artifact2 give the KECCAK row
\* 3, 5, 5, 6, 10, 20, 30, 60.
C2_AnalyzeWritesRows ==
    (AnalysisEnded /\ generated_files # << >> /\ AllWellFormed) =>
      /\ exc = "none"
      /\ \A n \in Names :
            ObsOf(Handed, n) # << >> =>
              /\ Cardinality(RowsFor(n)) = 1
              /\ \A i \in RowsFor(n) : DataRows[i] = RefRow(n, ObsOf(Handed, n))
      /\ Handed = <<Artifact1, Artifact2>> =>
            \E i \in RowsFor("KECCAK") :
               DataRows[i] = <<"KECCAK", "3", "5", "5", "6", "10", "20", "30", "60">>

\* C3 (as claimed): every counter with a gas > 0 observation has a row whose
\* count cell is the number of its gas > 0 observations.
C3_CountIsQualifying ==
    (AnalysisEnded /\ AllWellFormed) =>
      \A n \in Names :
        Qualifying(ObsOf(Handed, n)) # {} =>
          \E i \in RowsFor(n) :
             DataRows[i][2] = ToString(Cardinality(Qualifying(ObsOf(Handed, n))))

HasZeroGas(obs) == \E i \in 1..Len(obs) : obs[i][2] = 0

\* C4 (as claimed): a counter holding a gas = 0 observation gets its cycle
\* statistics from all its observations, its cpg cells from the gas > 0
\* ones only, and no division by zero happens.
C4_ZeroGas ==
    (AnalysisEnded /\ AllWellFormed) =>
      /\ exc # "ZeroDivisionError"
      /\ \A n \in Names :
            HasZeroGas(ObsOf(Handed, n)) =>
              \E i \in RowsFor(n) :
                 /\ SubSeq(DataRows[i], 6, 9) = RefCycleCells(ObsOf(Handed, n))
                 /\ SubSeq(DataRows[i], 3, 5) = RefCpgCells(ObsOf(Handed, n))

\* C5 (as claimed): a counter with observations but none with gas > 0 gets
\* a row with N/A in the three cpg cells and its cycle statistics, the
\* statistics step raising nothing; a counter with no observation has no row.
C5_SentinelRow ==
    (AnalysisEnded /\ AllWellFormed) =>
      \A n \in Names :
        /\ (ObsOf(Handed, n) # << >> /\ Qualifying(ObsOf(Handed, n)) = {}) =>
              /\ exc = "none"
              /\ \E i \in RowsFor(n) :
                    /\ SubSeq(DataRows[i], 3, 5) = <<NA, NA, NA>>
                    /\ SubSeq(DataRows[i], 6, 9) = RefCycleCells(ObsOf(Handed, n))
        /\ ObsOf(Handed, n) = << >> => RowsFor(n) = {}

\* C6 (as claimed): whatever the order in which the artifacts are merged,
\* the merge produces Summary Rows, and the same ones: every permutation of
\* the handed artifacts is analyzed to completion and leaves the report this
\* run left.
C6_MergeCommutes ==
    (AnalysisEnded /\ AllWellFormed /\ Len(Handed) >= 2) =>
      /\ exc = "none"
      /\ \A perm \in Permutations(1..Len(Handed)) :
            LET r == analyze_traces([i \in 1..Len(Handed) |-> Handed[perm[i]]])
            IN r.exc = "none" /\ r.report = report

\* C7 (as claimed): the final report has the row of every counter that was
\* observed, and its rows are in ascending order of counter name.
C7_RowsSortedByName ==
    (AnalysisEnded /\ AllWellFormed) =>
      /\ \A n \in Names : ObsOf(Handed, n) # << >> => RowsFor(n) # {}
      /\ \A i, j \in 1..Len(DataRows) :
            i < j => NameRank(DataRows[i][1]) < NameRank(DataRows[j][1])

DecodeErrors == {"CorruptArtifact", "FileNotFoundError"}

\* C10 (as claimed): an artifact that cannot be decoded (missing, or not a
\* gzip'd mapping of names to pairs) is skipped: no decoding error ends the
\* analysis, every handed artifact is visited, and the report is written.
C10_CorruptArtifactSkipped ==
    (AnalysisEnded /\ ~AllWellFormed) =>
      /\ exc \notin DecodeErrors
      /\ report # << >> /\ report[1] = TraceHeader
      /\ (\A i \in 1..Len(Handed) : Handed[i] \in {EmptyArtifact, Corrupt, Absent})
            => (exc = "none" /\ report = <<TraceHeader>>)

(* ------------------------- claims C11 .. C20 -------------------------- *)
RunEnded == pc \in {"done", "crashed"}

\* main got past build() and the scratch directory
SetupFailed == exc \in {"CalledProcessError", "OSError"}

Header == IF mode = "trace" THEN TraceHeader ELSE BenchHeader

\* C11: empty batch. When no input file was found, or every unit exited
\* non-zero, the run is never stuck before its end and ends normally with a
\* report holding the header row and nothing else, in both modes.
C11_EmptyBatch ==
    (~SetupFailed /\ \A u \in Units : status[u] = "failed") =>
      /\ RunEnded => (pc = "done" /\ report = <<Header>>)
      /\ ~RunEnded => ENABLED Next

\* C11 witness: a tracing run of two units, both failed, has ended with the
\* header-only report
C11_Witness ==
    /\ mode = "trace" /\ Len(files) = 2 /\ pc = "done"
    /\ \A u \in Units : status[u] = "failed"
    /\ report = <<TraceHeader>>

\* C12: in a tracing run that has ended, normally, with failed units, or by
\* an exception out of the pool or out of analyze_traces, the scratch
\* directory does not exist.
C12_ScratchTornDown ==
    (mode = "trace" /\ RunEnded) => scratch # "exists"

\* C12 witness: a run that created the directory ended by an exception
\* raised in analyze_traces, and the directory is gone
C12_Witness ==
    /\ mode = "trace" /\ pc = "crashed" /\ exc = "NameError"
    /\ scratch = "removed"

\* C13 (as claimed): merging the same artifact twice doubles the count and
\* the cycle sum of each of its counters. Two units whose files yield the
\* same block hash hand the same artifact path to analyze_traces twice; the
\* report then has, for every counter observed in it, a row whose count is
\* twice the artifact's (qualifying or total) observation count and whose
\* total is twice its cycle sum.
C13_MergeAdditive ==
    (AnalysisEnded /\ Len(generated_files) = 2
       /\ generated_files[1] = generated_files[2] /\ Handed[1].state = "json") =>
      \A n \in Names :
        LET once == ObsOf(<<Handed[1]>>, n) IN
        once # << >> =>
          \E i \in RowsFor(n) :
             /\ DataRows[i][2] \in {ToString(2 * Cardinality(Qualifying(once))),
                                    ToString(2 * Len(once))}
             /\ DataRows[i][9] = ToString(2 * SeqSum(Column(once, 1)))

\* the rows of the given units, as the benchmark writes them
BenchRows(units) ==
    [i \in 1..Len(units) |-> parse_metrics(bench_block_hash(files[units[i]]))]

IsPrefix(a, b) == Len(a) <= Len(b) /\ SubSeq(b, 1, Len(a)) = a

\* C14: the benchmark report is append-safe. Once written, the file is the
\* header line followed by one row per unit consumed so far that exited 0
\* (no row for a failed unit, no second header); every step leaves what was
\* written in place, adding at most one row at the end; and when the run is
\* done every unit has been consumed, so there is exactly one row per unit
\* that exited 0.
C14_AppendSafe ==
    /\ [](mode = "benchmark" /\ report # << >> =>
            /\ report = <<BenchHeader>> \o BenchRows(OkUnits(consumed))
            /\ \A i \in 2..Len(report) : report[i] # BenchHeader
            /\ pc = "done" => consumed = Len(files))
    /\ [][mode = "benchmark" /\ report # << >> =>
            /\ IsPrefix(report, report')
            /\ Len(report') <= Len(report) + 1]_vars

\* C14 witness: a finished benchmark of three units, the middle one failed,
\* with the header and the two rows of the others
C14_Witness ==
    /\ mode = "benchmark" /\ pc = "done" /\ Len(files) = 3
    /\ status[1] = "ok" /\ status[2] = "failed" /\ status[3] = "ok"
    /\ Len(report) = 3

\* C15 (as claimed): the external program is invoked at most once per unit,
\* exactly once by the time the pool is drained, and when the program
\* exists and the set-up succeeded the run ends completed, with its report
\* written, whatever subset of the units failed (every artifact left by a
\* unit that exited 0 being well formed).
C15_NoRetryCompletes ==
    /\ \A u \in Units : invoked[u] <= 1
    /\ (cliPresent /\ PoolDrained) => \A u \in Units : invoked[u] = 1
    /\ (cliPresent /\ ~SetupFailed /\ RunEnded /\ AllWellFormed) =>
          (pc = "done" /\ report # << >> /\ report[1] = Header)

\* the first n handed artifacts
Merged(n) == SubSeq(Handed, 1, n)

\* C16 (as claimed): the accumulated-series invariant. For every counter
\* name the cycles buffer and the gas buffer have the same length, holding
\* exactly the observations of that name in the artifacts merged so far, in
\* order; and once analyze_traces has ended over well-formed artifacts,
\* every one of them has been merged.
C16_SeriesInvariant ==
    /\ \A n \in Names :
          /\ Len(cycle_data[n]) = Len(gas_data[n])
          /\ cycle_data[n] = Column(ObsOf(Merged(loaded), n), 1)
          /\ gas_data[n] = Column(ObsOf(Merged(loaded), n), 2)
    /\ (AnalysisEnded /\ AllWellFormed) => loaded = Len(generated_files)

\* C17 (as claimed): access to the series is serialized. No merge starts
\* while a unit is queued or running or a worker is busy, and no artifact
\* path is read twice by the merges done so far.
C17_SerializedReadOnce ==
    /\ (pc = "analyze" \/ loaded > 0) =>
          /\ InFlight = {}
          /\ \A u \in Units : status[u] \notin {"queued", "running"}
    /\ \A i, j \in 1..loaded :
          i # j => generated_files[i] # generated_files[j]

\* C18 (as claimed): set-up level fatal conditions. When the external
\* program is missing no unit's invocation is started, and a run ends by an
\* exception only for a set-up failure or the missing program.
C18_SetupFatalOnly ==
    /\ ~cliPresent => \A u \in Units : invoked[u] = 0
    /\ pc = "crashed" => (SetupFailed \/ exc = "WorkerException")

\* C19: results are consumed in input order whatever the completion order.
\* At every moment the artifacts collected for analyze_traces are those of
\* the consumed units that exited 0, in input order; the benchmark report
\* is the header followed by their rows in input order; and every consumed
\* unit, hence every unit before the next one to be consumed, has finished.
C19_InputOrder ==
    /\ mode = "trace" =>
          generated_files = [i \in 1..Len(OkUnits(consumed)) |->
                               trace_file(files[OkUnits(consumed)[i]])]
    /\ (mode = "benchmark" /\ report # << >>) =>
          Tail(report) = BenchRows(OkUnits(consumed))
    /\ \A u \in 1..consumed : /\ result[u] # Pending
                              /\ status[u] \in {"ok", "failed", "raised"}

\* C19 witness: unit 3 has finished while unit 2 is still running; only
\* unit 1 has been consumed and only its artifact collected
C19_Witness ==
    /\ mode = "trace" /\ Len(files) = 3 /\ consumed = 1
    /\ status[1] = "ok" /\ status[2] = "running" /\ status[3] = "ok"
    /\ generated_files = <<trace_file(files[1])>>

\* C20 (as claimed): the scratch directory exists from before the first
\* invocation, is removed only when the run has left analyze_traces, and
\* the units invoked in it have pairwise distinct artifact paths.
C20_ScratchLifetimeUniquePaths ==
    mode = "trace" =>
      /\ (\E u \in Units : invoked[u] > 0) => scratch # "none"
      /\ scratch = "removed" => RunEnded
      /\ (pc = "analyze" \/ (loaded > 0 /\ pc = "unwind" /\ exc = "none")) =>
            scratch = "exists"
      /\ \A u, v \in Units :
            (u # v /\ invoked[u] > 0 /\ invoked[v] > 0) =>
              trace_file(files[u]) # trace_file(files[v])

====
